---- MODULE Spec2Model ----
(***************************************************************************)
(* The review / course aggregate-consistency core of the course-rating     *)
(* application: the Review and Course collections, the request handlers    *)
(* that change them (POST /api/reviews, POST /api/reviews/[id]/helpful,    *)
(* DELETE /api/users/[id]) and the Review model's post hooks with          *)
(* updateCourseRatings.                                                    *)
(*                                                                         *)
(* Every handler is an async function: between two awaited store calls     *)
(* other requests run.  Each awaited store call that reads or writes a     *)
(* collection is one atomic step of the request that makes it.             *)
(*                                                                         *)
(* Numbers with one decimal (ratings, difficulties, averages) are kept in  *)
(* tenths: 4.5 is 45.  An $avg result is kept as the exact fraction        *)
(* num/den.                                                                *)
(***************************************************************************)
EXTENDS Integers, Sequences, FiniteSets, TLC

\* ------------------------------------------------------------------ bounds
NumProcs == 2        \* requests the model runs, in any interleaving
NumUsers == 2
NumCourses == 2
MaxPop == 3          \* reviews of the course a lone recomputation reads
MaxDel == 2          \* reviews of the course a lone deletion finds

Procs == 1..NumProcs
Users == 1..NumUsers
Courses == 1..NumCourses

\* ---------------------------------------------------------------- ids
\* An ObjectId is a natural number; a malformed id string is BadId.  The
\* review a request creates gets its _id in the application (new Review),
\* unique to the request; the reviews of the initial store have _id 0.
BadId == 0 - 1
NoToken == 0
\* (an id check that accepts every string)
AnyIdIsValid(id) == TRUE

IsValidObjectId(id) == id >= 0
ReviewIds == 0..NumProcs

\* -------------------------------------------------- schema (Review model)
RatingMin == 10
RatingMax == 50
RatingStep == 5
DifficultyMin == 10
DifficultyMax == 50
ContentMinLength == 10
HelpfulCountMin == 0
DifficultyTexts == {"Easy", "Moderate", "Hard"}
PredefinedTags == {"Heavy Workload", "Group Projects"}

\* validator of rating: v % 0.5 === 0
RatingValidator(v) == v % RatingStep = 0

\* validator of difficulty: Number.isInteger(v)
DifficultyValidator(v) == v % 10 = 0

\* required on a String path: absent and empty both fail
RequiredString(s) == s # ""

\* (the schema without content's minlength)
ValidateNoMinlength(b) ==
    /\ IsValidObjectId(b.courseId)
    /\ IsValidObjectId(b.userId)
    /\ b.rating >= RatingMin /\ b.rating <= RatingMax /\ b.rating % RatingStep = 0
    /\ b.difficulty >= DifficultyMin /\ b.difficulty <= DifficultyMax
    /\ b.difficulty % 10 = 0
    /\ b.difficultyText # "" /\ b.difficultyText \in DifficultyTexts
    /\ b.tags \subseteq PredefinedTags
    /\ b.helpfulCount >= HelpfulCountMin
    /\ b.semester # ""
    /\ b.professor # ""

\* (the schema without the rating's 0.5-step validator)
ValidateNoStep(b) ==
    /\ IsValidObjectId(b.courseId)
    /\ IsValidObjectId(b.userId)
    /\ b.rating >= RatingMin /\ b.rating <= RatingMax
    /\ b.difficulty >= DifficultyMin /\ b.difficulty <= DifficultyMax
    /\ DifficultyValidator(b.difficulty)
    /\ RequiredString(b.difficultyText) /\ b.difficultyText \in DifficultyTexts
    /\ b.contentLen >= ContentMinLength
    /\ b.tags \subseteq PredefinedTags
    /\ b.helpfulCount >= HelpfulCountMin
    /\ RequiredString(b.semester)
    /\ RequiredString(b.professor)

\* Document validation run by save(): every path's required / min / max /
\* enum / minlength / validate rule.  content is kept as its length.
Validate(b) ==
    /\ IsValidObjectId(b.courseId)
    /\ IsValidObjectId(b.userId)
    /\ b.rating >= RatingMin /\ b.rating <= RatingMax /\ RatingValidator(b.rating)
    /\ b.difficulty >= DifficultyMin /\ b.difficulty <= DifficultyMax
    /\ DifficultyValidator(b.difficulty)
    /\ RequiredString(b.difficultyText) /\ b.difficultyText \in DifficultyTexts
    /\ b.contentLen >= ContentMinLength
    /\ b.tags \subseteq PredefinedTags
    /\ b.helpfulCount >= HelpfulCountMin
    /\ RequiredString(b.semester)
    /\ RequiredString(b.professor)

\* ------------------------------------------------------------------ state
VARIABLES
    users,       \* ids of the stored User documents
    courses,     \* course id -> its aggregate fields
    reviews,     \* the stored Review documents
    pc,          \* each request's position in its handler
    req,         \* each request's inputs (body, params, token)
    hasMarked,   \* helpful handler: the local hasMarked
    hookCourse,  \* the courseId the running post hook was given
    stats,       \* updateCourseRatings: the local stats
    resp,        \* the response the handler returned
    mutated,     \* history: courses whose reviews the request changed
    recomputed,  \* history: courses the request ran updateCourseRatings on
    initial,     \* history: the reviews of the initial store
    fullCode,    \* _id of each stored Course document -> its fullCode
    deleted,     \* history: the Review documents deleted so far
    cached,      \* dbConnect: cached.conn and cached.promise
    attempts,    \* the mongoose.connect calls made so far: each one's promise
                 \* state and the callers awaiting it, in await order
    jobs         \* microtask queue: the runs of callers' continuations, each
                 \* run the callers resumed one right after another

vars == <<users, courses, reviews, pc, req, hasMarked, hookCourse, stats,
          resp, mutated, recomputed, initial, fullCode, deleted, cached, attempts, jobs>>

NoReq == [op |-> "none"]
NoResp == [status |-> 0, error |-> "", cause |-> ""]
Reply(s, e, c) == [status |-> s, error |-> e, cause |-> c]
NoCourse == 0

\* --------------------------------------------------------- store queries
ReviewsOf(c) == {r \in reviews : r.courseId = c}

RECURSIVE SumRating(_)
SumRating(S) ==
    IF S = {} THEN 0
    ELSE LET r == CHOOSE x \in S : TRUE IN r.rating + SumRating(S \ {r})

RECURSIVE SumDifficulty(_)
SumDifficulty(S) ==
    IF S = {} THEN 0
    ELSE LET r == CHOOSE x \in S : TRUE IN r.difficulty + SumDifficulty(S \ {r})

\* (the pipeline without its $match stage)
AggregateNoMatch(c) ==
    LET rs == reviews
    IN IF rs = {} THEN <<>>
       ELSE <<[averageRating |-> [num |-> SumRating(rs), den |-> Cardinality(rs)],
               averageDifficulty |-> [num |-> SumDifficulty(rs), den |-> Cardinality(rs)],
               reviewCount |-> Cardinality(rs)]>>

\* Review.aggregate([{$match: {courseId}}, {$group: {_id: null, $avg, $avg,
\* $sum: 1}}]): no element when no review matches
Aggregate(c) ==
    LET rs == ReviewsOf(c)
    IN IF rs = {} THEN <<>>
       ELSE <<[averageRating |-> [num |-> SumRating(rs), den |-> Cardinality(rs)],
               averageDifficulty |-> [num |-> SumDifficulty(rs), den |-> Cardinality(rs)],
               reviewCount |-> Cardinality(rs)]>>

\* (toFixed cutting the digits off instead of rounding)
ToFixed1Truncating(x) ==
    LET n == x.num \div x.den
    IN [int |-> n \div 10, frac |-> n % 10]

\* x.toFixed(1): the decimal string with one fraction digit nearest to x, the
\* larger one when two are equally near.  x is num/den in tenths; the string
\* is kept as its integer part and its fraction digit.  (A mean of fewer than
\* ten valid ratings or difficulties that lies halfway between two tenths is a
\* multiple of 0.25, which a double holds exactly, so the tie rule applies to
\* the exact mean.)
ToFixed1(x) ==
    LET n == (2 * x.num + x.den) \div (2 * x.den)
    IN [int |-> n \div 10, frac |-> n % 10]

\* parseFloat of such a string, in tenths
ParseFloat(s) == s.int * 10 + s.frac

\* The update document updateCourseRatings passes to Course.findByIdAndUpdate
CourseUpdate(st) ==
    IF Len(st) > 0
    THEN [averageRating |-> ParseFloat(ToFixed1(st[1].averageRating)),
          averageDifficulty |-> ParseFloat(ToFixed1(st[1].averageDifficulty)),
          reviewCount |-> st[1].reviewCount]
    ELSE [averageRating |-> 0, averageDifficulty |-> 0, reviewCount |-> 0]

\* ------------------------------------------------------------ requests
\* (the derivation with < in place of <=)
WithDifficultyTextStrict(b) ==
    IF b.difficulty # 0 /\ b.difficultyText = ""
    THEN [b EXCEPT !.difficultyText =
              IF b.difficulty < 20 THEN "Easy"
              ELSE IF b.difficulty < 40 THEN "Moderate"
              ELSE "Hard"]
    ELSE b

\* "Set difficultyText based on difficulty value"
WithDifficultyText(b) ==
    IF b.difficulty # 0 /\ b.difficultyText = ""
    THEN [b EXCEPT !.difficultyText =
              IF b.difficulty <= 20 THEN "Easy"
              ELSE IF b.difficulty <= 40 THEN "Moderate"
              ELSE "Hard"]
    ELSE b

\* new Review(body): the schema's paths taken from the body (helpfulCount and
\* helpfulUsers default to 0 and []); the _id is new
NewReview(id, b) ==
    [id |-> id, courseId |-> b.courseId, userId |-> b.userId,
     rating |-> b.rating, difficulty |-> b.difficulty,
     difficultyText |-> b.difficultyText, contentLen |-> b.contentLen,
     tags |-> b.tags, helpfulCount |-> b.helpfulCount,
     helpfulUsers |-> b.helpfulUsers,
     semester |-> b.semester, professor |-> b.professor]

\* The bodies the model posts.  Each user has one valid rating/difficulty.
SampleRatings == <<40, 50, 45>>
SampleDifficulties == <<20, 40, 30>>
SampleRating(u) == SampleRatings[((u - 1) % Len(SampleRatings)) + 1]
SampleDifficulty(u) == SampleDifficulties[((u - 1) % Len(SampleDifficulties)) + 1]

Body(u, c, rating, difficulty) ==
    [userId |-> u, courseId |-> c, rating |-> rating, difficulty |-> difficulty,
     difficultyText |-> "", contentLen |-> 12, tags |-> {"Heavy Workload"},
     helpfulCount |-> 0, helpfulUsers |-> {},
     semester |-> "Fall 2024", professor |-> "Smith"]

ValidBody(u, c) == Body(u, c, SampleRating(u), SampleDifficulty(u))

\* one body per rule of the schema it breaks
InvalidBodies(u, c) ==
    LET b == ValidBody(u, c)
    IN {[b EXCEPT !.rating = 5],
        [b EXCEPT !.rating = 55],
        [b EXCEPT !.rating = 42],
        [b EXCEPT !.difficulty = 0],
        [b EXCEPT !.difficulty = 60],
        [b EXCEPT !.difficulty = 25],
        [b EXCEPT !.contentLen = 9],
        [b EXCEPT !.tags = {"Heavy Workload", "free text"}],
        [b EXCEPT !.semester = ""]}

Bodies == {ValidBody(u, c) : u \in Users, c \in Courses} \cup InvalidBodies(1, 1)

\* a session token carries the signed-in user's id (token.id); NoToken: none
Tokens == Users \cup {NoToken}

CreateRequests == {[op |-> "create", body |-> b] : b \in Bodies}
HelpfulRequests ==
    {[op |-> "helpful", reviewId |-> r, token |-> t] :
        r \in ReviewIds \cup {BadId}, t \in Tokens}
DeleteUserRequests ==
    {[op |-> "deleteUser", id |-> u, token |-> t] : u \in Users, t \in Tokens}
Requests == CreateRequests \cup HelpfulRequests \cup DeleteUserRequests

\* A request arrives and its handler is called.
Receive(p, R) ==
    /\ pc[p] = "idle"
    /\ \E r \in R : req' = [req EXCEPT ![p] = r]
    /\ pc' = [pc EXCEPT ![p] = "start"]
    /\ UNCHANGED <<users, courses, reviews, hasMarked, hookCourse, stats,
                   resp, mutated, recomputed, initial, fullCode, deleted, cached, attempts, jobs>>

\* The handler returns: its locals are gone.
Return(p, r) ==
    /\ pc' = [pc EXCEPT ![p] = "done"]
    /\ resp' = [resp EXCEPT ![p] = r]
    /\ req' = [req EXCEPT ![p] = NoReq]
    /\ hasMarked' = [hasMarked EXCEPT ![p] = FALSE]
    /\ hookCourse' = [hookCourse EXCEPT ![p] = NoCourse]
    /\ stats' = [stats EXCEPT ![p] = <<>>]

Goto(p, l) ==
    /\ pc' = [pc EXCEPT ![p] = l]
    /\ UNCHANGED resp

\* --------------------------------------------------------- middleware
\* config.matcher: a path is the sequence of its segments; :path* stands for
\* any number of segments, :id for one
Matcher ==
    {<<"api", "reviews", "POST">>,
     <<"api", "reviews", "helpful", ":path*">>,
     <<"api", "reviews", "report", ":path*">>,
     <<"api", "users", ":path*">>,
     <<"profile">>,
     <<"profile", ":path*">>,
     <<"courses", ":id", "review">>}

RECURSIVE MatchesPattern(_, _)
MatchesPattern(pattern, path) ==
    IF pattern = <<>> THEN path = <<>>
    ELSE IF Head(pattern) = ":path*" THEN TRUE
    ELSE IF path = <<>> THEN FALSE
    ELSE /\ Head(pattern) = ":id" \/ Head(pattern) = Head(path)
         /\ MatchesPattern(Tail(pattern), Tail(path))

\* the middleware runs for the request
Protected(path) == \E pattern \in Matcher : MatchesPattern(pattern, path)

\* the path of POST /api/reviews
ReviewsPath == <<"api", "reviews">>

\* ------------------------------------------------ POST /api/reviews
\* (a lookup that also finds the reviews that were deleted)
ExistingReviewEver(u, c) ==
    {r \in reviews \cup deleted : r.userId = u /\ r.courseId = c}

\* Review.findOne({userId, courseId})
ExistingReview(u, c) == {r \in reviews : r.userId = u /\ r.courseId = c}

\* (the collection without the unique index)
NoUniqueIndex(u, c) == TRUE

\* the unique index on {userId, courseId}: the insert of a second document
\* with the same key fails with a duplicate-key error (E11000)
UniqueIndexOk(u, c) == \A r \in reviews : ~(r.userId = u /\ r.courseId = c)

\* the middleware, if it runs for the path; then dbConnect, request.json(),
\* the difficultyText default and the "already reviewed" check
CreateCheck(p) ==
    /\ pc[p] = "start" /\ req[p].op = "create"
    /\ LET b == WithDifficultyText(req[p].body)
       IN IF Protected(ReviewsPath) /\ req[p].token = NoToken
          THEN Return(p, Reply(401, "Unauthorized access", ""))
          ELSE IF ExistingReview(b.userId, b.courseId) # {}
          THEN Return(p, Reply(400, "You have already reviewed this course", ""))
          ELSE /\ Goto(p, "save")
               /\ req' = [req EXCEPT ![p].body = b]
               /\ UNCHANGED <<hasMarked, hookCourse, stats>>
    /\ UNCHANGED <<users, courses, reviews, mutated, recomputed, initial, fullCode, deleted, cached, attempts, jobs>>

\* newReview.save(): validation, then the insert under the unique index, then
\* the post('save') hook starts with this.courseId.  The handler's catch
\* answers a ValidationError 400 with its message, any other error 500.
CreateSave(p) ==
    /\ pc[p] = "save"
    /\ LET b == req[p].body
       IN IF ~Validate(b)
          THEN /\ Return(p, Reply(400, "validation failed", "ValidationError"))
               /\ UNCHANGED <<reviews, mutated>>
          ELSE IF ~UniqueIndexOk(b.userId, b.courseId)
          THEN /\ Return(p, Reply(500, "Failed to create review", "MongoServerError"))
               /\ UNCHANGED <<reviews, mutated>>
          ELSE /\ reviews' = reviews \cup {NewReview(p, b)}
               /\ hookCourse' = [hookCourse EXCEPT ![p] = b.courseId]
               /\ mutated' = [mutated EXCEPT ![p] = @ \cup {b.courseId}]
               /\ Goto(p, "agg")
               /\ UNCHANGED <<req, hasMarked, stats>>
    /\ UNCHANGED <<users, courses, recomputed, initial, fullCode, deleted, cached, attempts, jobs>>

\* ------------------------------------- POST /api/reviews/[id]/helpful
FindById(id) == {r \in reviews : r.id = id}

\* getToken, the id checks, Review.findById and hasMarked
ToggleFind(p) ==
    /\ pc[p] = "start" /\ req[p].op = "helpful"
    /\ IF req[p].token = NoToken
       THEN Return(p, Reply(401, "Unauthorized", ""))
       ELSE IF ~IsValidObjectId(req[p].reviewId) \/ ~IsValidObjectId(req[p].token)
       THEN Return(p, Reply(400, "Invalid ID format", ""))
       ELSE IF FindById(req[p].reviewId) = {}
       THEN Return(p, Reply(404, "Review not found", ""))
       ELSE /\ hasMarked' = [hasMarked EXCEPT ![p] =
                   \E r \in FindById(req[p].reviewId) : req[p].token \in r.helpfulUsers]
            /\ Goto(p, "toggle")
            /\ UNCHANGED <<req, hookCourse, stats>>
    /\ UNCHANGED <<users, courses, reviews, mutated, recomputed, initial, fullCode, deleted, cached, attempts, jobs>>

\* (the removal with the increment of the other branch)
PullAndInc(r, u) ==
    [r EXCEPT !.helpfulUsers = @ \ {u}, !.helpfulCount = @ + 1]

\* {$pull: {helpfulUsers}, $inc: {helpfulCount: -1}}
PullAndDec(r, u) ==
    [r EXCEPT !.helpfulUsers = @ \ {u}, !.helpfulCount = @ - 1]

\* (the addition without its $inc)
AddToSetOnly(r, u) ==
    [r EXCEPT !.helpfulUsers = @ \cup {u}]

\* {$addToSet: {helpfulUsers}, $inc: {helpfulCount: 1}}
AddToSetAndInc(r, u) ==
    [r EXCEPT !.helpfulUsers = @ \cup {u}, !.helpfulCount = @ + 1]

\* Review.findByIdAndUpdate(reviewId, ...): one atomic update of the document,
\* if it is still stored.  The post('findOneAndUpdate') hook gets the document
\* and, given one, runs updateCourseRatings(doc.courseId) before the handler
\* replies.
ToggleUpdate(p) ==
    /\ pc[p] = "toggle"
    /\ LET found == FindById(req[p].reviewId)
           u == req[p].token
       IN IF found = {}
          THEN /\ Return(p, Reply(200, IF hasMarked[p] THEN "Removed helpful mark"
                                       ELSE "Marked as helpful", ""))
               /\ UNCHANGED <<reviews, mutated>>
          ELSE LET r == CHOOSE x \in found : TRUE
               IN /\ reviews' = (reviews \ {r}) \cup
                        {IF hasMarked[p] THEN PullAndDec(r, u) ELSE AddToSetAndInc(r, u)}
                  /\ hookCourse' = [hookCourse EXCEPT ![p] = r.courseId]
                  /\ mutated' = [mutated EXCEPT ![p] = @ \cup {r.courseId}]
                  /\ Goto(p, "agg")
                  /\ UNCHANGED <<req, hasMarked, stats>>
    /\ UNCHANGED <<users, courses, recomputed, initial, fullCode, deleted, cached, attempts, jobs>>

\* ------------------------------------------- updateCourseRatings (hooks)
\* const stats = await Review.aggregate(...)
HookAggregate(p) ==
    /\ pc[p] = "agg"
    /\ stats' = [stats EXCEPT ![p] = Aggregate(hookCourse[p])]
    /\ pc' = [pc EXCEPT ![p] = "write"]
    /\ UNCHANGED <<users, courses, reviews, req, hasMarked, hookCourse, resp,
                   mutated, recomputed, initial, fullCode, deleted, cached, attempts, jobs>>

\* The handler's reply once its hook has returned.
ReplyAfterHook(p) ==
    IF req[p].op = "create" THEN Reply(201, "", "")
    ELSE Reply(200, IF req[p].op # "helpful" THEN ""
                    ELSE IF hasMarked[p] THEN "Removed helpful mark"
                    ELSE "Marked as helpful", "")

\* (updateCourseRatings without its else branch)
HookWriteIfStats(p) ==
    /\ pc[p] = "write"
    /\ courses' = IF Len(stats[p]) > 0
                  THEN [courses EXCEPT ![hookCourse[p]] = CourseUpdate(stats[p])]
                  ELSE courses
    /\ recomputed' = [recomputed EXCEPT ![p] = @ \cup {hookCourse[p]}]
    /\ Return(p, ReplyAfterHook(p))
    /\ UNCHANGED <<users, reviews, mutated, initial, fullCode, deleted, cached, attempts, jobs>>

\* (updateCourseRatings adding the count to the stored one, $inc for $set)
HookWriteAdding(p) ==
    /\ pc[p] = "write"
    /\ courses' = [courses EXCEPT ![hookCourse[p]] =
                      [CourseUpdate(stats[p]) EXCEPT
                         !.reviewCount = @ + courses[hookCourse[p]].reviewCount]]
    /\ recomputed' = [recomputed EXCEPT ![p] = @ \cup {hookCourse[p]}]
    /\ Return(p, ReplyAfterHook(p))
    /\ UNCHANGED <<users, reviews, mutated, initial, fullCode, deleted, cached, attempts, jobs>>

\* (updateCourseRatings updating with no filter, Course.updateMany({}, ...))
HookWriteEveryCourse(p) ==
    /\ pc[p] = "write"
    /\ courses' = [c \in DOMAIN courses |-> CourseUpdate(stats[p])]
    /\ recomputed' = [recomputed EXCEPT ![p] = @ \cup {hookCourse[p]}]
    /\ Return(p, ReplyAfterHook(p))
    /\ UNCHANGED <<users, reviews, mutated, initial, fullCode, deleted, cached, attempts, jobs>>

\* await Course.findByIdAndUpdate(courseId, {...}); the hook returns, and the
\* handler replies (POST /api/reviews first reads the new review back).
HookWrite(p) ==
    /\ pc[p] = "write"
    /\ courses' = [courses EXCEPT ![hookCourse[p]] = CourseUpdate(stats[p])]
    /\ recomputed' = [recomputed EXCEPT ![p] = @ \cup {hookCourse[p]}]
    /\ Return(p, ReplyAfterHook(p))
    /\ UNCHANGED <<users, reviews, mutated, initial, fullCode, deleted, cached, attempts, jobs>>

\* A store call of updateCourseRatings rejects (the store cannot be reached):
\* the hook's error reaches the handler's catch, which answers 500.
HookThrows(p) ==
    /\ pc[p] \in {"agg", "write"}
    /\ Return(p, Reply(500, IF req[p].op = "create" THEN "Failed to create review"
                            ELSE "Failed to process request", "MongoNetworkError"))
    /\ UNCHANGED <<users, courses, reviews, mutated, recomputed, initial, fullCode, deleted, cached, attempts, jobs>>

\* ----------------------------------- Review.findOneAndDelete({_id})
DeleteRequests == {[op |-> "delete", reviewId |-> r] : r \in ReviewIds}

\* The document with the _id, if one is stored, is removed and handed to
\* post('findOneAndDelete'), which runs updateCourseRatings(doc.courseId);
\* without a document the hook does nothing and the call returns.
DeleteReview(p) ==
    /\ pc[p] = "start" /\ req[p].op = "delete"
    /\ LET found == FindById(req[p].reviewId)
       IN IF found = {}
          THEN /\ Return(p, Reply(200, "", ""))
               /\ UNCHANGED <<reviews, mutated, deleted, cached, attempts, jobs>>
          ELSE LET r == CHOOSE x \in found : TRUE
               IN /\ reviews' = reviews \ {r}
                  /\ deleted' = deleted \cup {r}
                  /\ hookCourse' = [hookCourse EXCEPT ![p] = r.courseId]
                  /\ mutated' = [mutated EXCEPT ![p] = @ \cup {r.courseId}]
                  /\ Goto(p, "agg")
                  /\ UNCHANGED <<req, hasMarked, stats>>
    /\ UNCHANGED <<users, courses, recomputed, initial, fullCode, cached, attempts, jobs>>

\* ------------------------------------------------ DELETE /api/users/[id]
\* the middleware answers a request to /api/users/* that has no token;
\* then Review.deleteMany({userId}), which runs no document or query hook of
\* the Review schema
DeleteUserReviews(p) ==
    /\ pc[p] = "start" /\ req[p].op = "deleteUser"
    /\ IF req[p].token = NoToken
       THEN /\ Return(p, Reply(401, "Unauthorized access", ""))
            /\ UNCHANGED <<reviews, mutated, deleted, cached, attempts, jobs>>
       ELSE LET gone == {r \in reviews : r.userId = req[p].id}
            IN /\ reviews' = reviews \ gone
               /\ deleted' = deleted \cup gone
               /\ mutated' = [mutated EXCEPT ![p] = @ \cup {r.courseId : r \in gone}]
               /\ Goto(p, "deleteUser")
               /\ UNCHANGED <<req, hasMarked, hookCourse, stats>>
    /\ UNCHANGED <<users, courses, recomputed, initial, fullCode, cached, attempts, jobs>>

\* User.findByIdAndDelete(params.id) and the reply
DeleteUserDoc(p) ==
    /\ pc[p] = "deleteUser"
    /\ IF req[p].id \in users
       THEN /\ users' = users \ {req[p].id}
            /\ Return(p, Reply(200, "User deleted successfully", ""))
       ELSE /\ Return(p, Reply(404, "User not found", ""))
            /\ UNCHANGED users
    /\ UNCHANGED <<courses, reviews, mutated, recomputed, initial, fullCode, deleted, cached, attempts, jobs>>

\* ------------------------------------------------ POST /api/courses
\* `${body.prefix} ${body.courseCode}`: a fullCode is kept as the pair of its
\* two parts; no fullCode (undefined) is the empty tuple
CodeOf(prefix, courseCode) == <<prefix, courseCode>>
NoCode == <<>>

\* "Ensure fullCode is created correctly"
WithFullCode(b) ==
    IF b.prefix # "" /\ b.courseCode # 0 /\ b.fullCode = NoCode
    THEN [b EXCEPT !.fullCode = CodeOf(b.prefix, b.courseCode)]
    ELSE b

\* Course.findOne({fullCode})
ExistingCourse(code) == {c \in DOMAIN fullCode : fullCode[c] = code}

\* Document validation of a Course: the required paths and the min / max of
\* the aggregate fields
ValidateCourse(b) ==
    /\ b.prefix # "" /\ b.courseCode # 0 /\ b.fullCode # NoCode
    /\ b.name # "" /\ b.description # "" /\ b.credits # ""
    /\ b.averageRating >= 0 /\ b.averageRating <= 50
    /\ b.averageDifficulty >= 0 /\ b.averageDifficulty <= 50
    /\ b.reviewCount >= 0

\* new Course(body): the aggregate paths of the schema are taken from the
\* body like every other path; a path the body lacks gets its default, 0
NewCourse(b) ==
    [averageRating |-> b.averageRating,
     averageDifficulty |-> b.averageDifficulty,
     reviewCount |-> b.reviewCount]

\* the _id new Course() gives the document of request p
NewCourseId(p) == NumCourses + p

\* A body of POST /api/courses for the course with code COMP k; an aggregate
\* field the body does not carry is kept as its default, 0.
CourseBody(k, code) ==
    [prefix |-> "COMP", courseCode |-> k, fullCode |-> code,
     name |-> "Algorithms", description |-> "An introduction", credits |-> "1",
     averageRating |-> 0, averageDifficulty |-> 0, reviewCount |-> 0]

CourseBodies ==
    LET fresh == CourseBody(NumCourses + 1, NoCode)
    IN {CourseBody(k, code) : k \in 1..(NumCourses + 1),
                              code \in {NoCode, CodeOf("COMP", 1)}}
       \cup {[fresh EXCEPT !.averageRating = 45, !.reviewCount = 7],
             [fresh EXCEPT !.averageDifficulty = 30],
             [fresh EXCEPT !.averageRating = 60],
             [fresh EXCEPT !.name = ""]}

CourseRequests == {[op |-> "course", body |-> b] : b \in CourseBodies}

\* dbConnect, request.json(), the fullCode default and the duplicate check
PostCourseCheck(p) ==
    /\ pc[p] = "start" /\ req[p].op = "course"
    /\ LET b == WithFullCode(req[p].body)
       IN IF ExistingCourse(b.fullCode) # {}
          THEN Return(p, Reply(400, "Course with this code already exists", ""))
          ELSE /\ Goto(p, "saveCourse")
               /\ req' = [req EXCEPT ![p].body = b]
               /\ UNCHANGED <<hasMarked, hookCourse, stats>>
    /\ UNCHANGED <<users, courses, reviews, mutated, recomputed, initial,
                   fullCode, deleted, cached, attempts, jobs>>

\* newCourse.save() and the reply
PostCourseSave(p) ==
    /\ pc[p] = "saveCourse"
    /\ LET b == req[p].body
           id == NewCourseId(p)
       IN IF ~ValidateCourse(b)
          THEN /\ Return(p, Reply(400, "validation failed", "ValidationError"))
               /\ UNCHANGED <<courses, fullCode>>
          ELSE /\ courses' = [c \in DOMAIN courses \cup {id} |->
                                 IF c = id THEN NewCourse(b) ELSE courses[c]]
               /\ fullCode' = [c \in DOMAIN fullCode \cup {id} |->
                                 IF c = id THEN b.fullCode ELSE fullCode[c]]
               /\ Return(p, Reply(201, "", ""))
    /\ UNCHANGED <<users, reviews, mutated, recomputed, initial, deleted, cached, attempts, jobs>>

\* --------------------------------------- POST /api/reviews/[id]/report
ReportRequests ==
    {[op |-> "report", reviewId |-> r, token |-> t] :
        r \in ReviewIds \cup {BadId}, t \in Tokens}

\* getToken, the id checks, Review.findById and the reply: nothing is stored
ReportReview(p) ==
    /\ pc[p] = "start" /\ req[p].op = "report"
    /\ IF req[p].token = NoToken
       THEN Return(p, Reply(401, "Unauthorized", ""))
       ELSE IF ~IsValidObjectId(req[p].reviewId) \/ ~IsValidObjectId(req[p].token)
       THEN Return(p, Reply(400, "Invalid ID format", ""))
       ELSE IF FindById(req[p].reviewId) = {}
       THEN Return(p, Reply(404, "Review not found", ""))
       ELSE Return(p, Reply(200, "Review reported successfully", ""))
    /\ UNCHANGED <<users, courses, reviews, mutated, recomputed, initial,
                   fullCode, deleted, cached, attempts, jobs>>

\* ------------------------------------------------------------- initial
\* The review of the initial store, if any: user 1's review of course 1.
Review0(marked) ==
    [NewReview(0, WithDifficultyText(ValidBody(1, 1)))
        EXCEPT !.helpfulUsers = marked, !.helpfulCount = Cardinality(marked)]

InitReviewSets == {{}, {Review0({})}, {Review0({2})}}

\* The handlers of the store run with the connection made and cached: one
\* mongoose.connect call, resolved, is both cached.promise and cached.conn.
NoAttempt == 0
MaxAttempts == 3
InitConnected ==
    /\ attempts = <<[state |-> "connected", waiters |-> <<>>]>>
    /\ cached = [conn |-> 1, promise |-> 1]
    /\ jobs = <<>>

InitLocals ==
    /\ InitConnected
    /\ pc = [p \in Procs |-> "idle"]
    /\ req = [p \in Procs |-> NoReq]
    /\ hasMarked = [p \in Procs |-> FALSE]
    /\ hookCourse = [p \in Procs |-> NoCourse]
    /\ stats = [p \in Procs |-> <<>>]
    /\ resp = [p \in Procs |-> NoResp]
    /\ mutated = [p \in Procs |-> {}]
    /\ recomputed = [p \in Procs |-> {}]

\* The fullCode of the initial store's Course documents: course c has the
\* c-th code.  No review has been deleted yet.
InitCatalog ==
    /\ fullCode = [c \in Courses |-> CodeOf("COMP", c)]
    /\ deleted = {}

\* The store after requests that ran one after another: every course's
\* aggregate fields are those updateCourseRatings writes for its reviews.
Init ==
    /\ users = Users
    /\ reviews \in InitReviewSets
    /\ initial = reviews
    /\ courses = [c \in Courses |-> CourseUpdate(Aggregate(c))]
    /\ InitCatalog
    /\ InitLocals

Next ==
    \E p \in Procs :
        \/ Receive(p, Requests)
        \/ CreateCheck(p)
        \/ CreateSave(p)
        \/ ToggleFind(p)
        \/ ToggleUpdate(p)
        \/ DeleteUserReviews(p)
        \/ DeleteUserDoc(p)
        \/ HookAggregate(p)
        \/ HookWrite(p)
        \/ HookThrows(p)

Spec == Init /\ [][Next]_vars

\* Review creation only.
NextCreate ==
    \E p \in Procs :
        \/ Receive(p, CreateRequests)
        \/ CreateCheck(p)
        \/ CreateSave(p)
        \/ HookAggregate(p)
        \/ HookWrite(p)
        \/ HookThrows(p)

SpecCreate == Init /\ [][NextCreate]_vars

\* Helpful toggles only, request p sent by user p: the users are distinct.
HelpfulRequestsOf(p) ==
    {[op |-> "helpful", reviewId |-> r, token |-> p] : r \in ReviewIds \cup {BadId}}

NextToggle ==
    \E p \in Procs :
        \/ Receive(p, HelpfulRequestsOf(p))
        \/ ToggleFind(p)
        \/ ToggleUpdate(p)
        \/ HookAggregate(p)
        \/ HookWrite(p)
        \/ HookThrows(p)

SpecToggle == Init /\ [][NextToggle]_vars

\* Review creation by callers with or without a session: the request carries
\* the session token, if any, and names a user in its body.
AuthCreateRequests ==
    {[op |-> "create", body |-> ValidBody(u, c), token |-> t] :
        u \in Users, c \in Courses, t \in Tokens}

NextAuth ==
    \E p \in Procs :
        \/ Receive(p, AuthCreateRequests)
        \/ CreateCheck(p)
        \/ CreateSave(p)
        \/ HookAggregate(p)
        \/ HookWrite(p)
        \/ HookThrows(p)

SpecAuth == Init /\ [][NextAuth]_vars

\* Review creation and helpful toggles together, in any interleaving.
NextReviews ==
    \E p \in Procs :
        \/ Receive(p, CreateRequests \cup HelpfulRequestsOf(p))
        \/ CreateCheck(p)
        \/ CreateSave(p)
        \/ ToggleFind(p)
        \/ ToggleUpdate(p)
        \/ HookAggregate(p)
        \/ HookWrite(p)
        \/ HookThrows(p)

SpecReviews == Init /\ [][NextReviews]_vars

\* Course creation with the requests that do not go through a Review hook
\* (review report, user deletion) and review creation, which does.
NextCourses ==
    \E p \in Procs :
        \/ Receive(p, CourseRequests \cup ReportRequests \cup DeleteUserRequests
                          \cup CreateRequests)
        \/ PostCourseCheck(p)
        \/ PostCourseSave(p)
        \/ ReportReview(p)
        \/ DeleteUserReviews(p)
        \/ DeleteUserDoc(p)
        \/ CreateCheck(p)
        \/ CreateSave(p)
        \/ HookAggregate(p)
        \/ HookWrite(p)
        \/ HookThrows(p)

SpecCourses == Init /\ [][NextCourses]_vars

\* Helpful toggles with any token: a user's, none, or one whose id is
\* malformed.
HelpfulRequestsAny ==
    {[op |-> "helpful", reviewId |-> r, token |-> t] :
        r \in ReviewIds \cup {BadId}, t \in Tokens \cup {BadId}}

NextHelpful ==
    \E p \in Procs :
        \/ Receive(p, HelpfulRequestsAny)
        \/ ToggleFind(p)
        \/ ToggleUpdate(p)
        \/ HookAggregate(p)
        \/ HookWrite(p)
        \/ HookThrows(p)

SpecHelpful == Init /\ [][NextHelpful]_vars

\* --------------------------- helpful toggles of one user, one at a time
\* no other request is being handled
Alone(p) == \A q \in Procs \ {p} : pc[q] \in {"idle", "done"}

\* The stored review before the toggles: any set of users has marked it, and
\* its helpfulCount is their number or, after overlapping toggles, one more.
InitTwice ==
    /\ users = Users
    /\ \E marked \in SUBSET Users : \E drift \in {0, 1} :
          reviews = {[Review0(marked) EXCEPT !.helpfulCount = @ + drift]}
    /\ initial = reviews
    /\ courses = [c \in Courses |-> CourseUpdate(Aggregate(c))]
    /\ InitCatalog
    /\ InitLocals

\* every request is a toggle sent by user 1, and starts when no other runs
NextTwice ==
    \E p \in Procs :
        \/ Alone(p) /\ Receive(p, HelpfulRequestsOf(1))
        \/ ToggleFind(p)
        \/ ToggleUpdate(p)
        \/ HookAggregate(p)
        \/ HookWrite(p)
        \/ HookThrows(p)

SpecTwice == InitTwice /\ [][NextTwice]_vars

\* ------------------------- one creation, difficulty and difficultyText
\* The difficulties a body may carry (0: none, or 0 itself) and the
\* difficultyText values ("": none).
BodyDifficulties == {0, 10, 20, 25, 30, 40, 50, 60}
BodyDifficultyTexts == {"", "Easy", "Moderate", "Hard", "Trivial"}

TextBodies ==
    {[ValidBody(u, c) EXCEPT !.difficulty = d, !.difficultyText = t] :
        u \in Users, c \in Courses, d \in BodyDifficulties,
        t \in BodyDifficultyTexts}

TextRequests == {[op |-> "create", body |-> b] : b \in TextBodies}

\* the requests that carry no difficultyText
DeriveRequests == {r \in TextRequests : r.body.difficultyText = ""}

\* one creation request, whatever difficultyText it carries
NextText ==
    \/ Receive(1, TextRequests)
    \/ CreateCheck(1)
    \/ CreateSave(1)
    \/ HookAggregate(1)
    \/ HookWrite(1)
    \/ HookThrows(1)

SpecText == Init /\ [][NextText]_vars

\* one creation request that carries no difficultyText
NextDerive ==
    \/ Receive(1, DeriveRequests)
    \/ CreateCheck(1)
    \/ CreateSave(1)
    \/ HookAggregate(1)
    \/ HookWrite(1)
    \/ HookThrows(1)

SpecDerive == Init /\ [][NextDerive]_vars

\* ---------------------------------------------- a lone recomputation
\* A post hook calls updateCourseRatings(c).
HookCall(p, c) ==
    /\ pc[p] = "idle"
    /\ req' = [req EXCEPT ![p] = [op |-> "hook"]]
    /\ hookCourse' = [hookCourse EXCEPT ![p] = c]
    /\ pc' = [pc EXCEPT ![p] = "agg"]
    /\ UNCHANGED <<users, courses, reviews, hasMarked, stats, resp, mutated,
                   recomputed, initial, fullCode, deleted, cached, attempts, jobs>>

RecalcRatings == {10, 15, 35, 40, 45, 50}
RecalcDifficulties == {10, 20, 50}

\* The reviews of course 1 a recomputation may find: k valid reviews, of
\* users 1..k, with the ratings and difficulties f gives.
Population(k, f) ==
    {NewReview(u, WithDifficultyText(Body(u, 1, f[u][1], f[u][2]))) : u \in 1..k}

\* possibly a review of another course is stored too
OtherCourseReviews ==
    {{}, {NewReview(0, WithDifficultyText(ValidBody(1, NumCourses)))}}

InitRecalc ==
    /\ users = Users
    /\ \E k \in 1..MaxPop :
         \E f \in [1..k -> RecalcRatings \X RecalcDifficulties] :
           \E other \in OtherCourseReviews :
             reviews = Population(k, f) \cup other
    /\ initial = reviews
    /\ courses = [c \in Courses |-> CourseUpdate(<<>>)]
    /\ InitCatalog
    /\ InitLocals

\* one call, run to its end, nothing else running
NextRecalc ==
    \/ HookCall(1, 1)
    \/ HookAggregate(1)
    \/ HookWrite(1)

SpecRecalc == InitRecalc /\ [][NextRecalc]_vars

\* ----------------------------- review mutations of several courses
\* valid reviews of any course by any user
AcrossRequests ==
    {[op |-> "create", body |-> ValidBody(u, c)] : u \in Users, c \in Courses}

\* these and user p's helpful toggles in any interleaving, every store call
\* succeeding
NextAcross ==
    \E p \in Procs :
        \/ Receive(p, AcrossRequests \cup HelpfulRequestsOf(p))
        \/ CreateCheck(p)
        \/ CreateSave(p)
        \/ ToggleFind(p)
        \/ ToggleUpdate(p)
        \/ HookAggregate(p)
        \/ HookWrite(p)

SpecAcross == Init /\ [][NextAcross]_vars

\* ----------------------------------------------------- dbConnect
\* The callers of dbConnect are the request slots; a caller's position is
\* "idle" before its call, "await" at `await cached.promise`, "done" after.
Range(q) == {q[i] : i \in DOMAIN q}

\* what a call of dbConnect gave its caller
Connection(a) == [conn |-> a]
ConnectError(a) == [thrown |-> a]

\* dbConnect() up to its await or its first return.  The promise awaited is
\* pending: the caller's continuation is registered on it.  It is settled
\* already: the continuation is put on the microtask queue at once.
DbCall(p) ==
    /\ pc[p] = "idle"
    /\ IF cached.conn # NoAttempt
       THEN /\ pc' = [pc EXCEPT ![p] = "done"]
            /\ resp' = [resp EXCEPT ![p] = Connection(cached.conn)]
            /\ UNCHANGED <<req, cached, attempts, jobs>>
       ELSE LET fresh == cached.promise = NoAttempt
                a == IF fresh THEN Len(attempts) + 1 ELSE cached.promise
                started == IF fresh
                           THEN Append(attempts, [state |-> "pending",
                                                  waiters |-> <<>>])
                           ELSE attempts
            IN /\ fresh => Len(attempts) < MaxAttempts
               /\ cached' = [cached EXCEPT !.promise = a]
               /\ req' = [req EXCEPT ![p] = [op |-> "dbConnect", attempt |-> a]]
               /\ pc' = [pc EXCEPT ![p] = "await"]
               /\ IF started[a].state = "pending"
                  THEN /\ attempts' = [started EXCEPT ![a].waiters = Append(@, p)]
                       /\ jobs' = jobs
                  ELSE /\ attempts' = started
                       /\ jobs' = Append(jobs, <<p>>)
               /\ UNCHANGED resp
    /\ UNCHANGED <<users, courses, reviews, hasMarked, hookCourse, stats,
                   mutated, recomputed, initial, fullCode, deleted>>

\* mongoose.connect(...).then(...) of attempt a is fulfilled or rejected: the
\* continuations registered on it go on the microtask queue together, in
\* await order.
Settle(a, outcome) ==
    /\ a \in DOMAIN attempts
    /\ attempts[a].state = "pending"
    /\ attempts' = [attempts EXCEPT ![a] = [state |-> outcome, waiters |-> <<>>]]
    /\ jobs' = IF attempts[a].waiters = <<>> THEN jobs
               ELSE Append(jobs, attempts[a].waiters)
    /\ UNCHANGED <<users, courses, reviews, pc, req, hasMarked, hookCourse, stats,
                   resp, mutated, recomputed, initial, fullCode, deleted, cached>>

\* The first run of continuations on the microtask queue: each caller in it
\* goes on after its await.  try: cached.conn = the result; return
\* cached.conn.  catch: cached.promise = null; throw e.
DbResume ==
    /\ jobs # <<>>
    /\ LET ps == Range(Head(jobs))
           a == req[Head(jobs)[1]].attempt
           ok == attempts[a].state = "connected"
       IN /\ cached' = IF ok THEN [cached EXCEPT !.conn = a]
                              ELSE [cached EXCEPT !.promise = NoAttempt]
          /\ resp' = [p \in Procs |->
                        IF p \in ps
                        THEN (IF ok THEN Connection(a) ELSE ConnectError(a))
                        ELSE resp[p]]
          /\ pc' = [p \in Procs |-> IF p \in ps THEN "done" ELSE pc[p]]
          /\ req' = [p \in Procs |-> IF p \in ps THEN NoReq ELSE req[p]]
    /\ jobs' = Tail(jobs)
    /\ UNCHANGED <<users, courses, reviews, hasMarked, hookCourse, stats,
                   mutated, recomputed, initial, fullCode, deleted, attempts>>

\* const cached = global.mongoose || { conn: null, promise: null }
InitDb ==
    /\ users = Users
    /\ reviews = {}
    /\ initial = reviews
    /\ courses = [c \in Courses |-> CourseUpdate(<<>>)]
    /\ InitCatalog
    /\ cached = [conn |-> NoAttempt, promise |-> NoAttempt]
    /\ attempts = <<>>
    /\ jobs = <<>>
    /\ pc = [p \in Procs |-> "idle"]
    /\ req = [p \in Procs |-> NoReq]
    /\ hasMarked = [p \in Procs |-> FALSE]
    /\ hookCourse = [p \in Procs |-> NoCourse]
    /\ stats = [p \in Procs |-> <<>>]
    /\ resp = [p \in Procs |-> NoResp]
    /\ mutated = [p \in Procs |-> {}]
    /\ recomputed = [p \in Procs |-> {}]

\* ------------------------------------ two recomputations in a row
\* Values course 1's aggregate fields may hold before a repair, whatever its
\* reviews are.
StoredAggregates ==
    {[averageRating |-> 0, averageDifficulty |-> 0, reviewCount |-> 0],
     [averageRating |-> 45, averageDifficulty |-> 30, reviewCount |-> 9],
     [averageRating |-> 50, averageDifficulty |-> 10, reviewCount |-> 1],
     [averageRating |-> 10, averageDifficulty |-> 50, reviewCount |-> 2]}

\* Course 1 has 0..MaxDel valid reviews and any of the StoredAggregates.
InitRepair ==
    /\ users = Users
    /\ \E k \in 0..MaxDel :
         \E f \in [1..k -> RecalcRatings \X RecalcDifficulties] :
           \E other \in OtherCourseReviews :
             reviews = Population(k, f) \cup other
    /\ initial = reviews
    /\ \E a \in StoredAggregates :
         courses = [c \in Courses |-> IF c = 1 THEN a
                                      ELSE CourseUpdate(Aggregate(c))]
    /\ InitCatalog
    /\ InitLocals

\* updateCourseRatings(1) is called, runs to its end, and is called again;
\* nothing else runs
NextRepair ==
    \/ HookCall(1, 1)
    \/ pc[1] = "done" /\ HookCall(2, 1)
    \/ HookAggregate(1)
    \/ HookWrite(1)
    \/ HookAggregate(2)
    \/ HookWrite(2)

SpecRepair == InitRepair /\ [][NextRepair]_vars

\* -------------------------------------------------- a lone deletion
\* Course 1 has 1..MaxDel valid reviews and, like every course, the aggregate
\* fields updateCourseRatings writes for them.
InitDelete ==
    /\ users = Users
    /\ \E k \in 1..MaxDel :
         \E f \in [1..k -> RecalcRatings \X RecalcDifficulties] :
           \E other \in OtherCourseReviews :
             reviews = Population(k, f) \cup other
    /\ initial = reviews
    /\ courses = [c \in Courses |-> CourseUpdate(Aggregate(c))]
    /\ InitCatalog
    /\ InitLocals

\* one findOneAndDelete, run to the end of its hook, nothing else running
NextDelete ==
    \/ Receive(1, DeleteRequests)
    \/ DeleteReview(1)
    \/ HookAggregate(1)
    \/ HookWrite(1)

SpecDelete == InitDelete /\ [][NextDelete]_vars

\* ------------------------------------ requests one after another
\* The server is done with request p and takes another one.
Recycle(p) ==
    /\ pc[p] = "done"
    /\ pc' = [pc EXCEPT ![p] = "idle"]
    /\ resp' = [resp EXCEPT ![p] = NoResp]
    /\ mutated' = [mutated EXCEPT ![p] = {}]
    /\ recomputed' = [recomputed EXCEPT ![p] = {}]
    /\ UNCHANGED <<users, courses, reviews, req, hasMarked, hookCourse, stats,
                   initial, fullCode, deleted, cached, attempts, jobs>>

\* user p posts a review of course 1, or some review is deleted
ScenarioRequests(p) ==
    {[op |-> "create", body |-> ValidBody(p, 1)]} \cup DeleteRequests

\* course 1 has no review
InitScenario ==
    /\ users = Users
    /\ reviews \in OtherCourseReviews
    /\ initial = reviews
    /\ courses = [c \in Courses |-> CourseUpdate(Aggregate(c))]
    /\ InitCatalog
    /\ InitLocals

\* every request starts when no other is running, and its store calls succeed
NextScenario ==
    \E p \in Procs :
        \/ Alone(p) /\ Receive(p, ScenarioRequests(p))
        \/ CreateCheck(p)
        \/ CreateSave(p)
        \/ DeleteReview(p)
        \/ HookAggregate(p)
        \/ HookWrite(p)
        \/ Recycle(p)

SpecScenario == InitScenario /\ [][NextScenario]_vars

\* Calls are made at any time, by a request's handler or by a microtask
\* already queued; connection attempts settle at any time; continuations run
\* in queue order.
NextDb ==
    \/ \E p \in Procs : DbCall(p)
    \/ \E a \in 1..MaxAttempts : Settle(a, "connected")
    \/ \E a \in 1..MaxAttempts : Settle(a, "failed")
    \/ DbResume
    \/ \E p \in Procs : Recycle(p)

SpecDb == InitDb /\ [][NextDb]_vars

\* ====================================================== the claims
Quiescent == \A p \in Procs : pc[p] \in {"idle", "done"}

\* a is the mean sum/n rounded to one decimal: a tenth nearest to it
IsRoundedMean(a, sum, n) ==
    /\ n * (2 * a - 1) <= 2 * sum
    /\ 2 * sum <= n * (2 * a + 1)

\* course c's aggregate fields are those of its stored reviews
AggregatesMatch(c) ==
    LET rs == ReviewsOf(c)
        n == Cardinality(rs)
    IN IF n = 0
       THEN courses[c] = [averageRating |-> 0, averageDifficulty |-> 0,
                          reviewCount |-> 0]
       ELSE /\ courses[c].reviewCount = n
            /\ IsRoundedMean(courses[c].averageRating, SumRating(rs), n)
            /\ IsRoundedMean(courses[c].averageDifficulty, SumDifficulty(rs), n)

\* C1: whenever no request is in flight, every course's reviewCount,
\* averageRating and averageDifficulty are the count and the rounded means of
\* the stored reviews of that course (all 0 when it has none).
C1_AggregatesAtQuiescence == Quiescent => \A c \in Courses : AggregatesMatch(c)

\* C2: when every request was a successful creation of a review of the same
\* course c, which had no review before, and all have finished, c has
\* reviewCount = N and averageRating = the rounded mean of the N ratings.
C2_ConcurrentCreatesConverge ==
    \A c \in Courses :
        ( /\ \A p \in Procs : pc[p] = "done" /\ resp[p].status = 201
          /\ {r.id : r \in ReviewsOf(c)} = Procs )
        => /\ courses[c].reviewCount = NumProcs
           /\ IsRoundedMean(courses[c].averageRating, SumRating(ReviewsOf(c)),
                            NumProcs)

\* C3: the store never holds two reviews with the same userId and courseId.
C3_OneReviewPerUserCourse ==
    \A r1 \in reviews : \A r2 \in reviews :
        (r1.userId = r2.userId /\ r1.courseId = r2.courseId) => r1 = r2

\* two creations of the same pair both passed the check; one stored its
\* review and the other's save was refused by the index
C3_Witness ==
    \E p \in Procs : \E q \in Procs \ {p} :
        /\ pc[p] = "done" /\ resp[p].cause = "MongoServerError"
        /\ \E r \in reviews : r.id = q

\* C4: every stored review's helpfulCount is the size of its helpfulUsers.
C4_HelpfulCountIsSize ==
    \A r \in reviews : r.helpfulCount = Cardinality(r.helpfulUsers)

\* the toggle of request p (user p) was applied: it was answered after its
\* update (200, or 500 when the hook that follows the update threw)
Toggled(p) == pc[p] = "done" /\ resp[p].status \in {200, 500}

\* C5: once the toggles of distinct users on a review have all finished, the
\* membership of exactly the users whose toggle was applied is flipped, and
\* helpfulCount has changed by (users added) - (users removed).
C5_DistinctTogglesNoDrift ==
    Quiescent =>
        \A r0 \in initial : \A r \in FindById(r0.id) :
            LET added == {u \in Procs : Toggled(u) /\ u \notin r0.helpfulUsers}
                removed == {u \in Procs : Toggled(u) /\ u \in r0.helpfulUsers}
            IN /\ r.helpfulUsers = (r0.helpfulUsers \ removed) \cup added
               /\ r.helpfulCount - r0.helpfulCount
                    = Cardinality(added) - Cardinality(removed)

\* users 1 and 2 toggled concurrently, one adding and one removing its mark
C5_Witness ==
    /\ \A p \in Procs : Toggled(p)
    /\ \E r0 \in initial : r0.helpfulUsers = {2}
    /\ \E r \in reviews : 1 \in r.helpfulUsers /\ 2 \notin r.helpfulUsers

\* C6: in no state is a review that a request created stored while its
\* course's aggregate fields do not include it.
C6_CreateIsAtomic ==
    \A r \in reviews : r.id \in Procs => AggregatesMatch(r.courseId)

\* C7: a request answered with success has run updateCourseRatings on every
\* course whose reviews it created, updated or deleted.
C7_RecomputeBeforeReply ==
    \A p \in Procs :
        (pc[p] = "done" /\ resp[p].status \in {200, 201})
            => mutated[p] \subseteq recomputed[p]

CreateStep(p) ==
    /\ req[p].op = "create" /\ pc[p] \in {"start", "save"}
    /\ pc'[p] # pc[p]

\* C9: a creation request whose (userId, courseId) already has a review when
\* it checks or saves is answered "already reviewed" (400), stores nothing
\* and leaves the courses as they are.
C9_DuplicateIsConflict ==
    [][\A p \in Procs :
          (CreateStep(p) /\ ExistingReview(req[p].body.userId,
                                           req[p].body.courseId) # {})
              => /\ pc'[p] = "done"
                 /\ resp'[p].status = 400
                 /\ resp'[p].error = "You have already reviewed this course"
                 /\ reviews' = reviews
                 /\ courses' = courses]_vars

\* the validation errors the claim lists
BreaksARule(b) ==
    \/ b.rating < 10 \/ b.rating > 50 \/ b.rating % 5 # 0
    \/ b.difficulty < 10 \/ b.difficulty > 50 \/ b.difficulty % 10 # 0
    \/ b.contentLen < 10
    \/ \E t \in b.tags : t \notin PredefinedTags
    \/ b.semester = "" \/ b.professor = "" \/ b.difficultyText = ""

\* C10: a creation request whose body breaks a validation rule is rejected
\* (400) when it saves; it stores no review, starts no recomputation and
\* leaves every course as it is.
C10_InvalidStoresNothing ==
    [][\A p \in Procs :
          (req[p].op = "create" /\ pc[p] = "save" /\ pc'[p] # "save"
             /\ BreaksARule(req[p].body))
              => /\ pc'[p] = "done"
                 /\ resp'[p].status = 400
                 /\ reviews' = reviews
                 /\ courses' = courses
                 /\ hookCourse'[p] = NoCourse
                 /\ recomputed'[p] = {}]_vars

\* a request was rejected for a validation error while a review is stored
C10_Witness ==
    \E p \in Procs :
        /\ pc[p] = "done" /\ resp[p].cause = "ValidationError"
        /\ reviews # {}
\* the field rules of a review, as the claim lists them
ReviewRatings == {10, 15, 20, 25, 30, 35, 40, 45, 50}
ReviewDifficulties == {10, 20, 30, 40, 50}

\* C11: every stored review has a rating among 1, 1.5, ..., 5, an integer
\* difficulty in 1..5, a content of at least 10 characters, tags of the
\* predefined vocabulary only and a difficultyText among Easy, Moderate, Hard,
\* whatever creations, helpful toggles and recomputations have run.
C11_StoredReviewsValid ==
    \A r \in reviews :
        /\ r.rating \in ReviewRatings
        /\ r.difficulty \in ReviewDifficulties
        /\ r.contentLen >= 10
        /\ r.tags \subseteq PredefinedTags
        /\ r.difficultyText \in {"Easy", "Moderate", "Hard"}

\* a request created a review and another request then marked it helpful;
\* both ran their recomputation
C11_Witness ==
    /\ Quiescent
    /\ \E r \in reviews : r.id \in Procs /\ r.helpfulUsers # {}
\* the difficultyText of a difficulty, as the claims give it
TextOf(d) ==
    IF d \in {10, 20} THEN "Easy"
    ELSE IF d \in {30, 40} THEN "Moderate"
    ELSE IF d = 50 THEN "Hard"
    ELSE "none"

\* C12: every stored review's difficultyText is the one its difficulty gives
\* (1 or 2 Easy, 3 or 4 Moderate, 5 Hard), whatever difficultyText the
\* creation request carried.
C12_TextAgreesWithDifficulty ==
    \A r \in reviews : r.difficultyText = TextOf(r.difficulty)

\* C13: the review stored for a creation request with difficulty d in 1..5
\* and no difficultyText has difficultyText Easy when d <= 2, Moderate when
\* 3 <= d <= 4 and Hard when d = 5.
C13_DerivedText ==
    \A r \in reviews : r.id \in Procs =>
        /\ r.difficulty <= 20 => r.difficultyText = "Easy"
        /\ (30 <= r.difficulty /\ r.difficulty <= 40) => r.difficultyText = "Moderate"
        /\ r.difficulty = 50 => r.difficultyText = "Hard"

\* a request with difficulty 5 and no difficultyText stored its review
C13_Witness ==
    \E r \in reviews : r.id \in Procs /\ r.difficulty = 50 /\ r.difficultyText = "Hard"
\* C14: a step changes a course's averageRating, averageDifficulty or
\* reviewCount only when it is the write of updateCourseRatings for that
\* course, and a course that a step creates has all three at 0.
C14_OnlyRecalcWritesAggregates ==
    [][/\ \A c \in DOMAIN courses' \ DOMAIN courses :
             courses'[c] = [averageRating |-> 0, averageDifficulty |-> 0,
                            reviewCount |-> 0]
       /\ \A c \in DOMAIN courses :
             courses'[c] # courses[c] =>
                 \E p \in Procs : /\ pc[p] = "write" /\ pc'[p] = "done"
                                  /\ hookCourse[p] = c]_vars
\* C15: when exactly two toggles of the same user on a review, run one after
\* the other, have been applied, the review's helpfulUsers and helpfulCount are
\* what they were before the first.
C15_ToggleTwiceRestores ==
    (Quiescent /\ Cardinality({p \in Procs : Toggled(p)}) = 2) =>
        \A r0 \in initial : \A r \in FindById(r0.id) :
            /\ r.helpfulUsers = r0.helpfulUsers
            /\ r.helpfulCount = r0.helpfulCount

\* user 1, a member at the start along with user 2, toggled twice
C15_Witness ==
    /\ Quiescent
    /\ Cardinality({p \in Procs : Toggled(p)}) = 2
    /\ \E r \in reviews : r.helpfulUsers = {1, 2}
\* request p, a helpful toggle, runs from its start to its first store update
\* or to its reply
ToggleStart(p) == req[p].op = "helpful" /\ pc[p] = "start" /\ pc'[p] # "start"

\* request p is answered with status s and nothing stored has changed
Refused(p, s) ==
    /\ pc'[p] = "done" /\ resp'[p].status = s
    /\ reviews' = reviews /\ courses' = courses

\* C16: a helpful toggle without a session token is answered unauthorized
\* (401), one with a malformed review id or user id with a validation error
\* (400), one with a well-formed id of no stored review not-found (404); each
\* leaves every review and every course as it was.
C16_FailedToggleChangesNothing ==
    [][\A p \in Procs : ToggleStart(p) =>
          /\ req[p].token = NoToken => Refused(p, 401)
          /\ (req[p].token # NoToken
                /\ (req[p].reviewId = BadId \/ req[p].token = BadId))
               => Refused(p, 400)
          /\ (req[p].token \in Users /\ req[p].reviewId \in ReviewIds
                /\ \A r \in reviews : r.id # req[p].reviewId)
               => Refused(p, 404)]_vars

\* one toggle was refused for a malformed id and another for an unknown
\* review, with a review stored
C16_Witness ==
    /\ reviews # {}
    /\ \E p \in Procs : pc[p] = "done" /\ resp[p].error = "Invalid ID format"
    /\ \E p \in Procs : pc[p] = "done" /\ resp[p].error = "Review not found"
\* request p, a helpful toggle that found its review, takes a step: its
\* update, or a step of the hook that follows it
ToggleStep(p) ==
    /\ req[p].op = "helpful" /\ pc[p] \in {"toggle", "agg", "write"}
    /\ pc'[p] # pc[p]

\* C17: a helpful toggle changes its review's helpfulUsers and helpfulCount
\* and nothing else: every other review and every course's fields are after
\* each of its steps what they were before, from whatever state it runs.
C17_ToggleTouchesOnlyItsReview ==
    [][\A p \in Procs : ToggleStep(p) =>
          /\ courses' = courses
          /\ {r \in reviews' : r.id # req[p].reviewId}
               = {r \in reviews : r.id # req[p].reviewId}
          /\ \A r \in FindById(req[p].reviewId) :
               \E r2 \in reviews' :
                   r2 = [r EXCEPT !.helpfulUsers = r2.helpfulUsers,
                                  !.helpfulCount = r2.helpfulCount]]_vars
\* C18: once a findOneAndDelete that removed the only remaining review of a
\* course has completed its recomputation, the course's averageRating,
\* averageDifficulty and reviewCount are 0.
C18_LastDeleteResets ==
    \A d \in deleted :
        (pc[1] = "done" /\ ReviewsOf(d.courseId) = {})
            => courses[d.courseId] = [averageRating |-> 0, averageDifficulty |-> 0,
                                      reviewCount |-> 0]

\* the only review of course 1, rated 4.5, was deleted
C18_Witness ==
    /\ pc[1] = "done"
    /\ ReviewsOf(1) = {}
    /\ \E d \in deleted : d.courseId = 1 /\ d.rating = 45
\* the reviews of course 1 as <<userId, rating, difficulty>>; user A is 1
\* (rating 4, difficulty 2), user B is 2 (rating 5, difficulty 4)
StoredOfC == {<<r.userId, r.rating, r.difficulty>> : r \in ReviewsOf(1)}
ReviewOfA == <<1, 40, 20>>
ReviewOfB == <<2, 50, 40>>
ADeleted == \E d \in deleted : d.userId = 1 /\ d.courseId = 1
Fields(ar, ad, n) == [averageRating |-> ar, averageDifficulty |-> ad, reviewCount |-> n]

AfterStep3 ==
    /\ ADeleted /\ StoredOfC = {ReviewOfB}
    /\ courses[1] = Fields(50, 40, 1)

\* request p is user A's creation of a review of course C
CreationOfA(p) ==
    /\ req[p].op = "create"
    /\ req[p].body.userId = 1 /\ req[p].body.courseId = 1

\* C20 as claimed: after step 3, user A's attempt to create a review of C is
\* rejected as a conflict (400, already reviewed) and C keeps 5.0 / 4.0 / 1.
C20_AttemptAfterDeleteConflicts ==
    [][\A p \in Procs :
          (CreationOfA(p) /\ pc[p] = "start" /\ pc'[p] # "start" /\ AfterStep3)
              => /\ pc'[p] = "done"
                 /\ resp'[p].status = 400
                 /\ resp'[p].error = "You have already reviewed this course"
                 /\ courses' = courses]_vars

\* C20 as amended: after step 3, user A's attempt to create a review of C
\* passes the already-reviewed test and stores A's review next to B's; the
\* request is then answered 201 and C has 4.5 / 3.0 / 2.
C20_AttemptAfterDeleteAccepted ==
    [][\A p \in Procs : (CreationOfA(p) /\ ADeleted) =>
          /\ (pc[p] = "start" /\ pc'[p] # "start" /\ AfterStep3)
                => pc'[p] = "save"
          /\ (pc[p] = "save" /\ pc'[p] # "save" /\ AfterStep3)
                => /\ pc'[p] = "agg"
                   /\ StoredOfC' = {ReviewOfA, ReviewOfB}
          /\ (pc[p] = "write" /\ pc'[p] # "write"
                /\ StoredOfC = {ReviewOfA, ReviewOfB})
                => /\ pc'[p] = "done" /\ resp'[p].status = 201
                   /\ courses'[1] = Fields(45, 30, 2)]_vars

\* A's second review is stored next to B's, after A's first was deleted
C20_Witness ==
    /\ Quiescent /\ ADeleted /\ StoredOfC = {ReviewOfA, ReviewOfB}
    /\ courses[1] = Fields(45, 30, 2)
\* C21: a creation request without a session token is answered 401 and
\* stores nothing, and a review that a creation request stores has the userId
\* of the request's session token.
C21_CreateUsesSessionIdentity ==
    [][\A p \in Procs : CreateStep(p) =>
          /\ req[p].token = NoToken =>
                /\ pc'[p] = "done" /\ resp'[p].status = 401
                /\ reviews' = reviews
          /\ \A r \in reviews' \ reviews : r.userId = req[p].token]_vars
\* C22: the recomputation a helpful toggle's update runs is harmless: once
\* every request has been answered, none of them with a store error, and at
\* most one of them was a creation (every other recomputation was that of a
\* toggle), every course has the aggregate fields of its stored reviews.
C22_ToggleRecomputeIsSafe ==
    ( /\ Quiescent
      /\ \A p \in Procs : resp[p].status # 500
      /\ Cardinality({p \in Procs : resp[p].status = 201}) <= 1 )
        => \A c \in Courses : AggregatesMatch(c)
\* C23: a run of updateCourseRatings(1), from whatever values course 1's
\* aggregate fields hold, leaves them as its stored reviews determine, and a
\* second run right after the first, the reviews unchanged, leaves every
\* course as the first run left it.
C23_RecomputeIdempotentRepair ==
    [][\A p \in Procs :
          (pc[p] = "write" /\ pc'[p] = "done") =>
              /\ AggregatesMatch(1)'
              /\ (\E q \in Procs \ {p} : pc[q] = "done") => courses' = courses]_vars

\* both runs have ended for a course with MaxDel reviews
C23_Witness ==
    /\ pc[1] = "done" /\ pc[2] = "done"
    /\ recomputed[1] = {1} /\ recomputed[2] = {1}
    /\ Cardinality(ReviewsOf(1)) = MaxDel
    /\ courses[1].reviewCount = MaxDel
\* a recomputation of request p is under way
Recomputing(p) == pc[p] \in {"agg", "write"}

\* C24: a recomputation for course c reads only the reviews whose courseId is
\* c and writes only course c, and the step that saves or updates a review
\* writes no course, so every other course keeps its aggregate fields; and
\* whatever other recomputations are under way, a recomputation's next step
\* can be taken.
C24_RecomputationsIndependent ==
    [][\A p \in Procs :
          LET c == hookCourse[p]
              rs == {r \in reviews : r.courseId = c}
          IN /\ Recomputing(p) => ENABLED (HookAggregate(p) \/ HookWrite(p))
             /\ (pc[p] = "agg" /\ pc'[p] = "write") =>
                    /\ courses' = courses
                    /\ Len(stats'[p]) = (IF rs = {} THEN 0 ELSE 1)
                    /\ rs # {} =>
                          /\ stats'[p][1].reviewCount = Cardinality(rs)
                          /\ stats'[p][1].averageRating.num = SumRating(rs)
                          /\ stats'[p][1].averageDifficulty.num = SumDifficulty(rs)
             /\ (pc[p] = "write" /\ pc'[p] = "done") =>
                    \A c2 \in DOMAIN courses \ {c} : courses'[c2] = courses[c2]
             /\ (pc[p] \in {"save", "toggle"} /\ pc'[p] # pc[p]) =>
                    courses' = courses]_vars

\* a recomputation for course 1 and one for course 2 are under way together,
\* each having read its course's reviews, one course already recomputed
C24_Witness ==
    /\ pc[1] = "write" /\ pc[2] = "write"
    /\ hookCourse[1] # hookCourse[2]
    /\ Len(stats[1]) = 1 /\ Len(stats[2]) = 1
    /\ \E c \in Courses : courses[c].reviewCount = 1

\* the connection attempts that are pending
PendingAttempts == {a \in DOMAIN attempts : attempts[a].state = "pending"}

\* request slot p makes its call of dbConnect in this step
DbCallStep(p) == pc[p] = "idle" /\ pc'[p] # "idle"

\* C25: at most one connection attempt is pending at any time, the callers
\* awaiting while no connection is cached all await the one pending attempt,
\* and once a connection is cached it stays the cached one and every call
\* returns it without starting an attempt.
C25_SingleCachedConnection ==
    [][/\ Cardinality(PendingAttempts') <= 1
       /\ \A p \in Procs :
             (pc'[p] = "await" /\ cached'.conn = NoAttempt
                 /\ attempts'[req'[p].attempt].state = "pending")
                => req'[p].attempt = cached'.promise
       /\ cached.conn # NoAttempt => cached'.conn = cached.conn
       /\ \A p \in Procs :
             (DbCallStep(p) /\ cached.conn # NoAttempt) =>
                 /\ pc'[p] = "done"
                 /\ resp'[p] = Connection(cached.conn)
                 /\ attempts' = attempts]_vars
\* the continuations run by this step are those of callers that awaited a
\* failed attempt
ResumeAfterFailure ==
    /\ jobs # <<>> /\ jobs' = Tail(jobs)
    /\ attempts[req[Head(jobs)[1]].attempt].state = "failed"

\* C26: when the continuations of the callers that awaited a failed attempt
\* run, each of these callers gets the error, cached.conn stays null and
\* cached.promise is cleared, unless it holds a newer attempt that is still
\* pending, which is kept; a call made with nothing cached starts a fresh
\* attempt; and the cached connection is never a failed attempt.
C26_FailureClearsOnlyItsAttempt ==
    [][/\ ResumeAfterFailure =>
             LET a == req[Head(jobs)[1]].attempt
             IN /\ \A p \in Range(Head(jobs)) :
                      pc'[p] = "done" /\ resp'[p] = ConnectError(a)
                /\ cached'.conn = NoAttempt
                /\ IF cached.promise \in PendingAttempts
                   THEN cached'.promise = cached.promise
                   ELSE cached'.promise = NoAttempt
       /\ \A p \in Procs :
             (DbCallStep(p) /\ cached.conn = NoAttempt
                 /\ cached.promise = NoAttempt) =>
                 /\ Len(attempts') = Len(attempts) + 1
                 /\ cached'.promise = Len(attempts')
                 /\ attempts'[cached'.promise].state = "pending"
       /\ cached'.conn # NoAttempt =>
             attempts'[cached'.conn].state = "connected"]_vars
\* C27: no stored review ever has a helpfulCount below the schema's minimum,
\* whatever helpful toggles run and however they overlap.
C27_HelpfulCountNeverNegative ==
    \A r \in reviews : r.helpfulCount >= HelpfulCountMin
\* C28: at the update step of user u's helpful toggle, if the review is still
\* stored, u is in its helpfulUsers right after the update exactly when the
\* request found u not marked (the reply will say helpful: true), and if the
\* review is no longer stored the request is not answered with a success.
C28_ToggleReplyMatchesState ==
    [][\A p \in Procs :
          (req[p].op = "helpful" /\ pc[p] = "toggle" /\ pc'[p] # "toggle") =>
              IF FindById(req[p].reviewId) = {}
              THEN ~(pc'[p] = "done" /\ resp'[p].status = 200)
              ELSE \A r \in reviews' :
                      r.id = req[p].reviewId =>
                          ((req[p].token \in r.helpfulUsers) <=> ~hasMarked[p])]_vars
\* C29: every stored review's userId is the _id of a stored user and its
\* courseId the _id of a stored course.
C29_ReviewsReferToStoredDocuments ==
    \A r \in reviews : r.userId \in users /\ r.courseId \in DOMAIN courses
\* C30: no two stored courses have the same fullCode.
C30_FullCodeUnique ==
    \A c1, c2 \in DOMAIN fullCode : fullCode[c1] = fullCode[c2] => c1 = c2
====
